---- MODULE Spec2Model ----
(***************************************************************************)
(* A model of the hand-made RSA engine (src/rsa.py) and of the 1-out-of-2  *)
(* oblivious transfer between Alice and Bob built on it                    *)
(* (src/oblivious.py).                                                     *)
(*                                                                         *)
(* Python integers are unbounded; every operator below computes the exact  *)
(* mathematical value while keeping its intermediate results inside the    *)
(* range of the model checker's integers.  Every random draw of the        *)
(* program (rd.randint, rd.choice) is a nondeterministic choice.  The       *)
(* disclose flag only prints and is left out; Bob is built with the same   *)
(* bits as Alice, as __main__ does.  An uncaught exception ends the run.   *)
(***************************************************************************)
EXTENDS Integers, Sequences, FiniteSets, TLC

VARIABLES
    entry,      \* which entry point runs: "miller_rabin", "RSA" or "Alice"
    pc,         \* position of the program
    bits,       \* the bits argument of RSA(bits) / Alice(bits, _) / Bob(bits, _)
    mr_n,       \* miller_rabin: the number under test
    mr_i,       \* miller_rabin: rounds passed so far
    mr_res,     \* miller_rabin: "none", or the value returned
    ret,        \* miller_rabin: who called: "caller", "find_p", "find_q"
    obs_a,      \* one call of the inner test(n, d, r): the witness drawn
    obs_res,    \* one call of the inner test(n, d, r): its result
    p, q, n, keysize, lam_n, e, d,      \* the fields of RSA
    enc_m, cypher, plain,               \* RSA.encrypt / RSA.decrypt round trip
    m0, m1, x0, x1, v, k0, k1,          \* the fields of Alice
    n_pub, e_pub, xs, b, k, message,    \* the fields of Bob
    stage,      \* history: steps of the exchange completed in order (0..5)
    seq         \* history: how the first out-of-order call was handled

rsaVars   == <<p, q, n, keysize, lam_n, e, d>>
encVars   == <<enc_m, cypher, plain>>
aliceVars == <<m0, m1, x0, x1, v, k0, k1>>
bobVars   == <<n_pub, e_pub, xs, b, k, message>>
mrVars    == <<mr_n, mr_i, mr_res, ret>>
obsVars   == <<obs_a, obs_res>>
histVars  == <<stage, seq>>
vars == <<entry, pc, bits, mrVars, obsVars, rsaVars, encVars, aliceVars,
          bobVars, histVars>>

(***************************************************************************)
(* Bounds of the model.                                                    *)
(***************************************************************************)
\* A random draw over a range at most this wide takes every value of it.
MaxRange == 40
\* miller_rabin is called on every n in 1..MaxN (and on the small landmarks).
MaxN == 44
\* RSA(bits) is constructed for every bits in 0..MaxBits, and for BigBits.
MaxBits == 5
BigBits == 19
\* Alice(bits, _) and Bob(bits, _) are constructed for these two sizes.
SmallBits == 2
DemoBits == 7

\* Values a draw over a wider range can also take, besides its two ends:
\* two small witnesses and blinding factors, the primes 131 and 137 of 8
\* bits, 3^12 (an odd composite no witness accepts) and 917519, the least
\* prime p with 65537 | p - 1.
Landmarks == {2, 3, 131, 137, 531441, 917519}

(***************************************************************************)
(* Program constants.                                                      *)
(***************************************************************************)
tol == 128
PublicExponent == 65537
Message0 == 1234
Message1 == 5678
NonceLo == 1000
NonceHi == 10000
\* An attribute that was never assigned (reading it raises AttributeError).
Unset == -1

(***************************************************************************)
(* rd.randint(lo, hi): any integer of lo..hi, both ends included.          *)
(***************************************************************************)
RandInt(lo, hi) ==
    IF hi - lo <= MaxRange
    THEN lo .. hi
    ELSE {lo, hi} \cup {x \in Landmarks : lo <= x /\ x <= hi}

(***************************************************************************)
(* Integer arithmetic of Python, exact.                                    *)
(***************************************************************************)
RECURSIVE Pow2(_)
Pow2(i) == IF i = 0 THEN 1 ELSE 2 * Pow2(i - 1)

RECURSIVE BitLength(_)
BitLength(x) == IF x = 0 THEN 0 ELSE 1 + BitLength(x \div 2)

RECURSIVE Gcd(_, _)
Gcd(x, y) == IF y = 0 THEN x ELSE Gcd(y, x % y)

\* The value of a one-element set: binds a computed value once.
The(S) == CHOOSE z \in S : TRUE

\* (x * y) % md for 0 <= x, y < md, by doubling when the product is too wide.
RECURSIVE AddMul(_, _, _)
AddMul(x, y, md) ==
    IF y = 0 \/ x = 0 \/ md = 1 THEN 0
    ELSE The({ IF y % 2 = 1 THEN (((h + h) % md) + x) % md ELSE (h + h) % md :
               h \in {AddMul(x, y \div 2, md)} })

MulMod(x, y, md) == IF md <= 46341 THEN (x * y) % md ELSE AddMul(x, y, md)

\* bs ** ex % md by squaring, for 0 <= bs < md and ex >= 0.
RECURSIVE PowRed(_, _, _)
PowRed(bs, ex, md) ==
    IF ex = 0 \/ md = 1 THEN 1 % md
    ELSE IF bs = 0 THEN 0
    ELSE The({ IF ex % 2 = 1 THEN MulMod(bs, s, md) ELSE s :
               s \in { MulMod(h, h, md) : h \in {PowRed(bs, ex \div 2, md)} } })

\* pow(bs, ex, md) for ex >= 0 (bs may be negative; the result is in 0..md-1).
PowMod(bs, ex, md) == The({ PowRed(r, ex, md) : r \in {bs % md} })

\* <<g, s, t>> with g = gcd(x, y) = s*x + t*y.
RECURSIVE EGcd(_, _)
EGcd(x, y) ==
    IF y = 0 THEN <<x, 1, 0>>
    ELSE LET r == EGcd(y, x % y)
         IN  <<r[1], r[3], r[2] - (x \div y) * r[3]>>

\* pow(x, -1, md), defined when gcd(x, md) = 1 (pow(x, -1, 1) is 0).
ModInverse(x, md) == EGcd(x % md, md)[2] % md

(***************************************************************************)
(* miller_rabin(n, tol)                                                    *)
(***************************************************************************)
\* get_dr(d, r): <<d, r>> with the powers of two divided out of d.
RECURSIVE get_dr(_, _)
get_dr(dd, r) == IF dd % 2 = 1 THEN <<dd, r>> ELSE get_dr(dd \div 2, r + 1)

\* The loop of test(n, d, r): j iterations are left, x is the current power.
RECURSIVE testLoop(_, _, _)
testLoop(x, nn, j) ==
    IF j = 0 THEN FALSE
    ELSE IF x \in {1, nn - 1} THEN TRUE
    ELSE testLoop(MulMod(x, x, nn), nn, j - 1)

\* A plausible slip: the round only looks for x == 1.
RECURSIVE testLoopOnlyOne(_, _, _)
testLoopOnlyOne(x, nn, j) ==
    IF j = 0 THEN FALSE
    ELSE IF x = 1 THEN TRUE
    ELSE testLoopOnlyOne(MulMod(x, x, nn), nn, j - 1)

testOnlyOne(nn, dd, r, a) == testLoopOnlyOne(PowMod(a, dd, nn), nn, r)

\* test(n, d, r) once the witness a is drawn.
test(nn, dd, r, a) == testLoop(PowMod(a, dd, nn), nn, r)

\* k = tol // 2 + 1, the number of rounds.
Rounds == tol \div 2 + 1

\* The simple cases of miller_rabin: "True", "False", or "rounds".
simple_case(nn) ==
    IF nn \in {2, 3} THEN "True"
    ELSE IF nn = 1 \/ nn % 2 = 0 THEN "False"
    ELSE "rounds"

\* The numbers miller_rabin is called on when it is the entry point.
MRInputs == (1 .. MaxN) \cup {133} \cup {x \in Landmarks : 100 <= x /\ x <= 200}

\* miller_rabin returns res on nn to its caller who: the caller of the entry
\* point, or the while loop of find_prime (lines 56-60), which keeps a
\* probable prime and draws again otherwise.
Return(who, nn, res) ==
    /\ mr_res' = res
    /\ CASE who = "caller" -> pc' = "mr_done" /\ UNCHANGED <<p, q>>
         [] who = "find_p" ->
                IF res = "True"
                THEN p' = nn /\ pc' = "find_q" /\ UNCHANGED q
                ELSE pc' = "find_p" /\ UNCHANGED <<p, q>>
         [] who = "find_q" ->
                IF res = "True"
                THEN q' = nn /\ pc' = "rsa" /\ UNCHANGED p
                ELSE pc' = "find_q" /\ UNCHANGED <<p, q>>

\* miller_rabin(n) called directly: the simple cases, or on to the rounds.
miller_rabin_call ==
    /\ entry = "miller_rabin" /\ pc = "call"
    /\ IF simple_case(mr_n) = "rounds"
       THEN pc' = "mr" /\ UNCHANGED <<mr_res, p, q>>
       ELSE Return("caller", mr_n, simple_case(mr_n))
    /\ UNCHANGED <<entry, bits, mr_n, mr_i, ret, obsVars, n, keysize, lam_n,
                   e, d, encVars, aliceVars, bobVars, histVars>>

\* One round of all(test(n, d, r) for _ in range(k)): all() stops at the
\* first False, and returns True after k rounds.
miller_rabin_round ==
    /\ pc = "mr"
    /\ \E a \in RandInt(2, mr_n - 2) :
         LET dr == get_dr(mr_n - 1, 0)
             ok == test(mr_n, dr[1], dr[2], a)
             passed == IF ok THEN mr_i + 1 ELSE mr_i
         IN  IF ok /\ mr_i + 1 < Rounds
             THEN mr_i' = mr_i + 1 /\ UNCHANGED <<pc, mr_res, p, q>>
             ELSE /\ Return(ret, mr_n, IF ok THEN "True" ELSE "False")
                  /\ mr_i' = IF ret = "caller" THEN passed ELSE 0
    /\ UNCHANGED <<entry, bits, mr_n, ret, obsVars, n, keysize, lam_n, e, d,
                   encVars, aliceVars, bobVars, histVars>>

\* One call of the inner test(n, d, r), on an n that reaches the rounds.
test_round ==
    /\ entry = "miller_rabin" /\ pc = "call"
    /\ simple_case(mr_n) = "rounds"
    /\ \E a \in RandInt(2, mr_n - 2) :
         LET dr == get_dr(mr_n - 1, 0)
         IN  /\ obs_a' = a
             /\ obs_res' = test(mr_n, dr[1], dr[2], a)
    /\ pc' = "test_done"
    /\ UNCHANGED <<entry, bits, mrVars, rsaVars, encVars, aliceVars, bobVars,
                   histVars>>

(***************************************************************************)
(* find_prime(bits)                                                        *)
(***************************************************************************)
\* p = rd.randint(lo, hi), then miller_rabin(p): its simple cases answer at
\* once, any other candidate goes through the rounds.
find_prime_draw ==
    /\ pc \in {"find_p", "find_q"}
    /\ \E c \in RandInt(Pow2(bits), Pow2(bits + 1)) :
         /\ mr_n' = c
         /\ ret' = pc
         /\ mr_i' = 0
         /\ IF simple_case(c) = "rounds"
            THEN pc' = "mr" /\ mr_res' = "none" /\ UNCHANGED <<p, q>>
            ELSE Return(pc, c, simple_case(c))
    /\ UNCHANGED <<entry, bits, obsVars, n, keysize, lam_n, e, d, encVars,
                   aliceVars, bobVars, histVars>>

(***************************************************************************)
(* class RSA                                                               *)
(***************************************************************************)
Abs(x) == IF x < 0 THEN -x ELSE x

\* abs(a * b) // gcd(a, b) with a = p - 1, b = q - 1; the division is exact,
\* so it is done before the product.
carmichael(pp, qq) ==
    LET a == pp - 1
        bb == qq - 1
    IN  Abs((a \div Gcd(a, bb)) * bb)

\* RSA.__init__ after both find_prime calls (lines 74-85).  The assert ends
\* the construction with AssertionError: no instance reaches the caller
\* and its fields stay unset.
rsa_init ==
    /\ pc = "rsa"
    /\ LET lam == carmichael(p, q)
       IN  IF Gcd(PublicExponent, lam) # 1
           THEN pc' = "AssertionError" /\ UNCHANGED <<n, keysize, lam_n, e, d>>
           ELSE /\ n' = p * q
                /\ keysize' = BitLength(p * q)
                /\ lam_n' = lam
                /\ e' = PublicExponent
                /\ d' = ModInverse(PublicExponent, lam)
                /\ pc' = IF entry = "RSA" THEN "rsa_done" ELSE "alice"
    /\ UNCHANGED <<entry, bits, mrVars, obsVars, p, q, encVars, aliceVars,
                   bobVars, histVars>>

\* RSA.publickey()
publickey == <<n, e>>

\* RSA.encrypt(message, publickey)
encrypt(msg, pkey) == PowMod(msg, pkey[2], pkey[1])

\* RSA.decrypt(cypher)
decrypt(cy) == PowMod(cy, d, n)

\* cypher = r.encrypt(m, r.publickey()) for a message 0 <= m < n.
rsa_encrypt ==
    /\ pc = "rsa_done"
    /\ \E msg \in RandInt(0, n - 1) :
         /\ enc_m' = msg
         /\ cypher' = encrypt(msg, publickey)
    /\ pc' = "encrypted"
    /\ UNCHANGED <<entry, bits, mrVars, obsVars, rsaVars, plain, aliceVars,
                   bobVars, histVars>>

\* plain = r.decrypt(cypher)
rsa_decrypt ==
    /\ pc = "encrypted"
    /\ plain' = decrypt(cypher)
    /\ pc' = "decrypted"
    /\ UNCHANGED <<entry, bits, mrVars, obsVars, rsaVars, enc_m, cypher,
                   aliceVars, bobVars, histVars>>

(***************************************************************************)
(* class Alice, class Bob, and the exchange of __main__ (lines 86-96).     *)
(***************************************************************************)
\* Alice.__init__ after RSA(bits) (lines 18-28); Bob.__init__ only stores
\* its arguments.
alice_init ==
    /\ pc = "alice"
    /\ m0' = Message0
    /\ m1' = Message1
    /\ x0' \in RandInt(NonceLo, NonceHi)
    /\ x1' \in RandInt(NonceLo, NonceHi)
    /\ pc' = "ready"
    /\ UNCHANGED <<entry, bits, mrVars, obsVars, rsaVars, encVars, v, k0, k1,
                   bobVars, histVars>>

\* History of the order of the calls.  Step kk of the exchange is in order
\* when exactly the steps before it are done; it is out of order when its
\* predecessor is not done yet or a later step is already done.  seq keeps
\* what the first out-of-order call did: "accepted" (it ran to its end) or
\* the exception it raised.
Track(kk, outcome) ==
    IF seq # "in_order" \/ stage = kk
    THEN UNCHANGED <<stage, seq>>
    ELSE IF stage = kk - 1
    THEN stage' = (IF outcome = "ok" THEN kk ELSE stage) /\ UNCHANGED seq
    ELSE seq' = (IF outcome = "ok" THEN "accepted" ELSE outcome)
         /\ UNCHANGED stage

\* Alice.send_publickey()
send_publickey == publickey

\* Alice.send_random_messages()
send_random_messages == <<x0, x1>>

\* bob.receive_publickey(alice.send_publickey())
share_publickey ==
    /\ pc = "ready"
    /\ n_pub' = send_publickey[1]
    /\ e_pub' = send_publickey[2]
    /\ Track(1, "ok")
    /\ UNCHANGED <<entry, pc, bits, mrVars, obsVars, rsaVars, encVars,
                   aliceVars, xs, b, k, message>>

\* bob.receive_random_messages(alice.send_random_messages())
share_random_messages ==
    /\ pc = "ready"
    /\ xs' = send_random_messages
    /\ Track(2, "ok")
    /\ UNCHANGED <<entry, pc, bits, mrVars, obsVars, rsaVars, encVars,
                   aliceVars, n_pub, e_pub, b, k, message>>

\* bob.choose_parameters()
choose_parameters ==
    /\ pc = "ready"
    /\ b' \in {0, 1}
    /\ k' \in RandInt(0, Pow2(bits))
    /\ Track(3, "ok")
    /\ UNCHANGED <<entry, pc, bits, mrVars, obsVars, rsaVars, encVars,
                   aliceVars, n_pub, e_pub, xs, message>>

\* Bob.send_encrypted_choice(): (x_b + k ** e_pub) % n_pub
send_encrypted_choice(xb, kk, ee, nn) == (xb + PowMod(kk, ee, nn)) % nn

\* Alice.receive_encrypted_choice: k_i = pow(v - x_i, d, n)
blinding(vv, xx) == PowMod(vv - xx, d, n)

\* Alice.send_encrypted_messages()
send_encrypted_messages == <<(m0 + k0) % n, (m1 + k1) % n>>

\* Bob.decrypt_choice(messages): (messages[b] - k) % n_pub
decrypt_choice(msgs) == (msgs[b + 1] - k) % n_pub

\* alice.receive_encrypted_choice(bob.send_encrypted_choice()): Bob reads
\* xs, b, k, e_pub and n_pub; one that was never assigned raises
\* AttributeError and Alice is not called.
send_choice ==
    /\ pc = "ready"
    /\ IF xs = <<Unset, Unset>> \/ b = Unset \/ k = Unset
          \/ e_pub = Unset \/ n_pub = Unset
       THEN /\ pc' = "AttributeError"
            /\ Track(4, "AttributeError")
            /\ UNCHANGED <<v, k0, k1>>
       ELSE LET choice == send_encrypted_choice(xs[b + 1], k, e_pub, n_pub)
            IN  /\ v' = choice
                /\ k0' = blinding(choice, x0)
                /\ k1' = blinding(choice, x1)
                /\ Track(4, "ok")
                /\ UNCHANGED pc
    /\ UNCHANGED <<entry, bits, mrVars, obsVars, rsaVars, encVars, m0, m1,
                   x0, x1, bobVars>>

\* bob.decrypt_choice(alice.send_encrypted_messages()): Alice reads k0 and
\* k1, Bob reads b, k and n_pub; one that was never assigned raises
\* AttributeError.
send_messages ==
    /\ pc = "ready"
    /\ IF k0 = Unset \/ k1 = Unset \/ b = Unset \/ k = Unset \/ n_pub = Unset
       THEN /\ pc' = "AttributeError"
            /\ Track(5, "AttributeError")
            /\ UNCHANGED message
       ELSE /\ message' = decrypt_choice(send_encrypted_messages)
            /\ Track(5, "ok")
            /\ UNCHANGED pc
    /\ UNCHANGED <<entry, bits, mrVars, obsVars, rsaVars, encVars, aliceVars,
                   n_pub, e_pub, xs, b, k>>

(***************************************************************************)
(* Specifications.                                                         *)
(***************************************************************************)
NothingYet ==
    /\ mr_i = 0 /\ mr_res = "none"
    /\ obs_a = Unset /\ obs_res = FALSE
    /\ p = Unset /\ q = Unset /\ n = Unset /\ keysize = Unset
    /\ lam_n = Unset /\ e = Unset /\ d = Unset
    /\ enc_m = Unset /\ cypher = Unset /\ plain = Unset
    /\ m0 = Unset /\ m1 = Unset /\ x0 = Unset /\ x1 = Unset
    /\ v = Unset /\ k0 = Unset /\ k1 = Unset
    /\ n_pub = Unset /\ e_pub = Unset /\ xs = <<Unset, Unset>>
    /\ b = Unset /\ k = Unset /\ message = Unset
    /\ stage = 0 /\ seq = "in_order"

\* miller_rabin(n), and its inner test, on every n of MRInputs.
InitMR ==
    /\ entry = "miller_rabin" /\ pc = "call" /\ ret = "caller"
    /\ bits = Unset
    /\ mr_n \in MRInputs
    /\ NothingYet

NextMR == miller_rabin_call \/ miller_rabin_round \/ test_round

SpecMR == InitMR /\ [][NextMR]_vars

\* RSA(bits), then one encrypt / decrypt round trip.
InitKey ==
    /\ entry = "RSA" /\ pc = "find_p" /\ ret = "find_p"
    /\ bits \in (0 .. MaxBits) \cup {BigBits}
    /\ mr_n = Unset
    /\ NothingYet

NextKey ==
    \/ find_prime_draw
    \/ miller_rabin_round
    \/ rsa_init
    \/ rsa_encrypt
    \/ rsa_decrypt

SpecKey == InitKey /\ [][NextKey]_vars

\* Alice(bits, _) and Bob(bits, _), then the calls of the exchange in any
\* order a caller can make them.
Init ==
    /\ entry = "Alice" /\ pc = "find_p" /\ ret = "find_p"
    /\ bits \in {SmallBits, DemoBits}
    /\ mr_n = Unset
    /\ NothingYet

Next ==
    \/ find_prime_draw
    \/ miller_rabin_round
    \/ rsa_init
    \/ alice_init
    \/ share_publickey
    \/ share_random_messages
    \/ choose_parameters
    \/ send_choice
    \/ send_messages

Spec == Init /\ [][Next]_vars

(***************************************************************************)
(* Properties.                                                             *)
(***************************************************************************)
\* x is prime, by trial division (every number of the model is below 2^20).
IsPrime(x) ==
    /\ x >= 2
    /\ \A dv \in 2 .. 1024 : (dv < x /\ dv * dv <= x) => x % dv # 0

IsOddComposite(x) == x > 3 /\ x % 2 = 1 /\ ~IsPrime(x)

\* The strong-probable-prime test of the reference: a^d = 1, or
\* a^(2^i * d) = n - 1 for some 0 <= i < r, where n - 1 = 2^r * d, d odd.
StrongProbablePrime(nn, a) ==
    LET dr == get_dr(nn - 1, 0)
    IN  \/ PowMod(a, dr[1], nn) = 1
        \/ \E i \in 0 .. (dr[2] - 1) : PowMod(a, Pow2(i) * dr[1], nn) = nn - 1

\* The witnesses of 2..n-2 that one round of the code accepts.
Accepted(nn) ==
    LET dr == get_dr(nn - 1, 0)
    IN  {a \in 2 .. (nn - 2) : test(nn, dr[1], dr[2], a)}

KeyBuilt == pc \in {"rsa_done", "encrypted", "decrypted", "alice", "ready",
                    "AttributeError"}
InOrder(s) == seq = "in_order" /\ stage >= s
Chosen == IF b = 0 THEN m0 ELSE m1
NotChosen == IF b = 0 THEN m1 ELSE m0
InField == m0 < n /\ m1 < n /\ x0 < n /\ x1 < n

\* C1: after the full exchange run in order with primes p and q, Bob's
\* message is exactly Alice's m_b.
C1_OTCorrectness ==
    (InOrder(5) /\ IsPrime(p) /\ IsPrime(q)) => message = Chosen

\* C2: Alice's view never determines b: some blinding factor of Bob's range
\* [0, 2^bits] gives the same v with the other nonce.
C2_ChoiceHidden ==
    InOrder(4) =>
        \E kk \in 0 .. Pow2(bits) :
            send_encrypted_choice(xs[(1 - b) + 1], kk, e, n) = v

\* C3: a call made out of order is rejected with a protocol-sequencing
\* error: it neither runs to its end nor fails with another exception.
C3_OutOfOrderRejected == seq \in {"in_order", "ProtocolSequencingError"}

\* C4: no Alice exists with a message or a nonce >= n.
C4_ValuesInField == pc \in {"ready", "AttributeError"} => InField

\* C5: every constructed key has (e * d) mod lam_n = 1 and gcd(e, lam_n) = 1.
C5_KeyValidity ==
    KeyBuilt => (MulMod(e, d, lam_n) = 1 /\ Gcd(e, lam_n) = 1)

\* C6: primes with gcd(e, lam_n) # 1 are discarded and drawn again: the
\* construction never ends with an error.
C6_RetryOnMissingInverse == pc # "AssertionError"

\* C7: decrypt(encrypt(m, publickey())) = m for primes p, q and 0 <= m < n.
C7_RoundTrip ==
    (pc = "decrypted" /\ IsPrime(p) /\ IsPrime(q)) => plain = enc_m

\* C8: miller_rabin never rejects a prime, whatever witnesses the rounds
\* draw; 2 and 3 are accepted without a round.
C8_PrimesAccepted ==
    (entry = "miller_rabin" /\ IsPrime(mr_n)) =>
        /\ mr_res # "False"
        /\ pc = "mr_done" => mr_res = "True"
        /\ mr_n \in {2, 3} => (pc # "mr" /\ mr_i = 0)

\* C8, reached: a prime above 3 returned True after all the rounds.
C8_Witness ==
    /\ pc = "mr_done" /\ mr_res = "True"
    /\ IsPrime(mr_n) /\ mr_n > 3
    /\ mr_i = Rounds

\* C9: on an odd composite n > 3 one round accepts exactly the witnesses
\* the strong-probable-prime test accepts, at most a quarter of 2..n-2.
C9_RoundIsStrongTest ==
    (pc = "test_done" /\ IsOddComposite(mr_n)) =>
        /\ obs_res = StrongProbablePrime(mr_n, obs_a)
        /\ 4 * Cardinality(Accepted(mr_n)) <= Cardinality(2 .. (mr_n - 2))

\* C10: once Alice has the choice, k_b = k and the other k differs from k,
\* so Bob's unblinding of the other slot does not give the other message.
C10_OnlyChosenMessage ==
    InOrder(4) =>
        /\ (IF b = 0 THEN k0 ELSE k1) = k
        /\ (IF b = 0 THEN k1 ELSE k0) # k
        /\ (send_encrypted_messages[(1 - b) + 1] - k) % n_pub # NotChosen

(***************************************************************************)
(* Supporting facts, checked with the claims: what does hold of the code   *)
(* around each failure above.                                              *)
(***************************************************************************)
\* Every constructed key satisfies e * d = 1 (mod lam_n) as a congruence
\* (for p = q = 2, lam_n = 1 and d = 0) and gcd(e, lam_n) = 1.
KeyCongruence ==
    KeyBuilt => (MulMod(e, d, lam_n) = 1 % lam_n /\ Gcd(e, lam_n) = 1)

\* The round trip holds for distinct primes.
RoundTripDistinct ==
    (pc = "decrypted" /\ IsPrime(p) /\ IsPrime(q) /\ p # q) => plain = enc_m

\* The exchange is correct for distinct primes and values below n.
OTCorrectDistinctInField ==
    (InOrder(5) /\ IsPrime(p) /\ IsPrime(q) /\ p # q /\ InField)
        => message = Chosen

\* With distinct primes, values below n and distinct nonces, exactly k_b
\* equals k and the other slot does not unblind to the other message.
OnlyChosenDistinctNonces ==
    (InOrder(4) /\ IsPrime(p) /\ IsPrime(q) /\ p # q /\ InField /\ x0 # x1)
        => /\ (IF b = 0 THEN k0 ELSE k1) = k
           /\ (IF b = 0 THEN k1 ELSE k0) # k
           /\ (send_encrypted_messages[(1 - b) + 1] - k) % n_pub # NotChosen

====
